---- MODULE Spec2Model ----
(***************************************************************************)
(* A model of the SUMO output scripts of the repository:                   *)
(*   MOD4/vehicle_monitor.py  (readers, one-shot mode, live polling mode)  *)
(*   MOD1/network_analyzer.py (analyze_network)                            *)
(*                                                                         *)
(* A monitored file is modelled by whether it exists and by its size; the  *)
(* simulator (another process) may create, extend, truncate and delete a   *)
(* file between any two steps of the script.  What a reader finds in a     *)
(* file is drawn when ET.parse reads it: the file is malformed XML, or a   *)
(* document of `size` records, each of which the reader's conversions      *)
(* accept ("ok") or reject by raising ("bad").                             *)
(***************************************************************************)
EXTENDS Integers, Sequences, FiniteSets, TLC

VARIABLES
    argv,        \* sys.argv[1:]
    pc,          \* position of the script
    mode,        \* what the command line selected
    idx,         \* position in the file list being walked
    reader,      \* the reader function being executed
    path,        \* its file_path argument
    files,       \* the directory: file name -> [exists, size]
    file_sizes,  \* monitor_simulation_live's file_sizes, keyed by file
    res,         \* what the reader call in progress has done
    calls,       \* reader calls made in the current pass over the files
    printed,     \* the last top-level message printed
    lastRead,    \* history: size of the content the monitor last parsed, per file
    net,         \* network_analyzer.py: the network file given to analyze_network
    connections, \* network_analyzer.py: what analyze_network returned
    report,      \* network_analyzer.py: the discrepancy and comparison rows printed
    epc,                  \* run_simulation.py: position of the script
    step_length,          \* run_simulation's step_length argument
    simulation_time,      \* run_simulation's simulation_time
    next_collection_time, \* run_simulation's next_collection_time
    collections,          \* history: the times _collect_data was called with
    battery_data,         \* Test1SUMOExporter.battery_data
    realtime_data,        \* Test1SUMOExporter.realtime_data
    trip_data,            \* Test1SUMOExporter.trip_data
    charging_events,      \* Test1SUMOExporter.charging_events
    started,              \* traci.start has returned
    closes,               \* number of traci.close calls made
    raised,               \* history: the call of run_simulation that raised
    success,              \* what run_simulation returned
    csv_exports,          \* one entry per export_to_csv call
    excel                 \* outcome of writing the workbook

\* The state of run_simulation.py.
exporterVars == <<epc, step_length, simulation_time, next_collection_time, collections,
                  battery_data, realtime_data, trip_data, charging_events,
                  started, closes, raised, success, csv_exports, excel>>

vars == <<argv, pc, mode, idx, reader, path, files, file_sizes, res, calls,
          printed, lastRead, net, connections, report, exporterVars>>

\* The state of vehicle_monitor.py.
monitorVars == <<argv, mode, idx, reader, path, files, file_sizes, res, calls,
                 lastRead>>

----------------------------------------------------------------------------
(* Bounds *)

MaxSize == 2
MaxJunctions == 2
MaxEdges == 2
MaxSteps == 2

----------------------------------------------------------------------------
(* vehicle_monitor.py: names *)

Files == {"fcd.xml", "tripinfo.xml", "chargingstations.xml"}

Readers == {"read_fcd_data", "read_tripinfo_data", "read_battery_data",
            "read_charging_stations_data"}

\* Insertion order of the files_to_monitor dict, which the for loop follows.
files_to_monitor == <<"fcd.xml", "tripinfo.xml", "chargingstations.xml">>

\* read_all_files with its last two calls exchanged.
read_all_files_calls_exchanged ==
    << [reader |-> "read_fcd_data",               path |-> "fcd.xml"],
       [reader |-> "read_charging_stations_data", path |-> "chargingstations.xml"],
       [reader |-> "read_tripinfo_data",          path |-> "tripinfo.xml"] >>

\* The three calls of read_all_files, in program order.
read_all_files_calls ==
    << [reader |-> "read_fcd_data",               path |-> "fcd.xml"],
       [reader |-> "read_tripinfo_data",          path |-> "tripinfo.xml"],
       [reader |-> "read_charging_stations_data", path |-> "chargingstations.xml"] >>

\* The if/elif chain of the live loop that picks the reader of a file.
ReaderFor(filename) ==
    IF filename = "fcd.xml" THEN "read_fcd_data"
    ELSE IF filename = "tripinfo.xml" THEN "read_tripinfo_data"
    ELSE IF filename = "chargingstations.xml" THEN "read_charging_stations_data"
    ELSE "none"

\* The command lines the script is started with.
ArgLists ==
    { <<>>, <<"--live">>, <<"--help">>, <<"--LIVE">>, <<"fcd.xml">>,
      <<"--live", "--help">>, <<"--help", "--live">>, <<"fcd.xml", "--live">> }

\* A __main__ block that looks for its flags anywhere on the command line.
DispatchAnywhere(args) ==
    IF Len(args) > 0
    THEN IF \E i \in 1..Len(args) : args[i] = "--live" THEN "live"
         ELSE IF \E i \in 1..Len(args) : args[i] = "--help" THEN "help"
         ELSE "unknown"
    ELSE "oneshot"

\* The __main__ block: the mode chosen from sys.argv.
Dispatch(args) ==
    IF Len(args) > 0
    THEN IF args[1] = "--live" THEN "live"
         ELSE IF args[1] = "--help" THEN "help"
         ELSE "unknown"
    ELSE "oneshot"

----------------------------------------------------------------------------
(* Files and what a reader finds in them *)

Absent == [exists |-> FALSE, size |-> 0]

FileStates == {Absent} \cup {[exists |-> TRUE, size |-> n] : n \in 0..MaxSize}

Malformed == [wellformed |-> FALSE, recs |-> <<>>]

\* What ET.parse can find in an existing file of the given size.
Docs(size) ==
    {Malformed} \cup
    (IF size = 0 THEN {}
     ELSE {[wellformed |-> TRUE, recs |-> r] : r \in [1..size -> {"ok", "bad"}]})

\* Index of the first record on which a conversion raises; 0 when none does.
FirstBad(recs) ==
    IF \E i \in 1..Len(recs) : recs[i] = "bad"
    THEN CHOOSE i \in 1..Len(recs) :
            recs[i] = "bad" /\ \A j \in 1..(i-1) : recs[j] # "bad"
    ELSE 0

\* The exception raised inside a reader's try block, "none" when it completes.
Raised(exists, doc) ==
    IF ~exists THEN "FileNotFoundError"
    ELSE IF ~doc.wellformed THEN "ParseError"
    ELSE IF FirstBad(doc.recs) # 0 THEN "ValueError"
    ELSE "none"

\* Records printed before the reader's loop ends or is left by an exception.
Processed(exists, doc) ==
    IF ~exists \/ ~doc.wellformed THEN 0
    ELSE IF FirstBad(doc.recs) # 0 THEN FirstBad(doc.recs) - 1
    ELSE Len(doc.recs)

\* A reader with `except ET.ParseError` as its only except clause.
CaughtParseErrorOnly(rd, exc) == exc = "ParseError"

\* The except clauses of a reader: every reader ends with `except Exception`.
Caught(rd, exc) ==
    exc \in {"FileNotFoundError", "ParseError", "ValueError"}

\* The message of the except clause that handles exc.
HandlerMessage(rd, exc) ==
    IF rd = "read_battery_data" /\ exc = "ParseError" THEN "skipping"
    ELSE "error_reading"

NoRes == [outcome |-> "none", message |-> "none", processed |-> 0, recs |-> <<>>]

----------------------------------------------------------------------------
(* network_analyzer.py: XML values *)

\* element.get(name) is None or a string; a string is a sequence of characters.
None == <<>>
Some(v) == <<v>>

\* Python's truth value of a str-or-None.
Truthy(opt) == opt # None /\ opt[1] # <<>>

\* str.startswith for a one-character prefix.
StartsWith(str, ch) == Len(str) > 0 /\ str[1] = ch

\* The text of a numeric attribute: a number, or text float() rejects.
Num(n) == [numeric |-> TRUE, val |-> n]
NotANumber == [numeric |-> FALSE, val |-> 0]

\* float(element.get(name, 0)): the default 0 when the attribute is missing.
FloatOrZero(opt) == IF opt = None THEN 0 ELSE opt[1].val

\* float() raises ValueError on the attribute's text.
FloatRaises(opt) == opt # None /\ ~opt[1].numeric

\* math.sqrt, on the perfect squares the modelled coordinates produce.
Sqrt(n) == CHOOSE r \in 0..n : r * r = n

----------------------------------------------------------------------------
(* network_analyzer.py: the network files analyze_network is applied to *)

JunctionPool ==
    { [id |-> Some(<<"a">>), x |-> None,         y |-> None],
      [id |-> Some(<<"b">>), x |-> Some(Num(3)), y |-> Some(Num(4))],
      [id |-> Some(<<"a">>), x |-> Some(Num(3)), y |-> None],
      [id |-> Some(<<>>),    x |-> None,         y |-> Some(Num(4))],
      [id |-> Some(<<"b">>), x |-> Some(NotANumber), y |-> None] }

Endpoints ==
    { <<Some(<<"a">>), Some(<<"b">>)>>, <<Some(<<"b">>), Some(<<"a">>)>>,
      <<Some(<<"a">>), Some(<<"a">>)>>, <<None, Some(<<"b">>)>>,
      <<Some(<<>>), Some(<<>>)>> }

EdgeIds == { None, Some(<<>>), Some(<<":", "i">>) }

\* The length attributes of an edge's lane children, in document order.
LaneLists == { <<>>, <<Some(NotANumber)>>, <<None, Some(Num(7))>> }

EdgePool ==
    { [id |-> Some(<<"e">>), from |-> p[1], to |-> p[2], lanes |-> <<Some(Num(5))>>] :
          p \in Endpoints }
    \cup
    { [id |-> i, from |-> Some(<<"a">>), to |-> Some(<<"b">>), lanes |-> <<Some(Num(5))>>] :
          i \in EdgeIds }
    \cup
    { [id |-> Some(<<"f">>), from |-> Some(<<"a">>), to |-> Some(<<"b">>), lanes |-> l] :
          l \in LaneLists }

SeqsUpTo(S, n) == UNION {[1..k -> S] : k \in 0..n}

NoNet == [file |-> "none", junctions |-> <<>>, edges |-> <<>>]

NetFiles(maxJunctions, maxEdges) ==
    { [file |-> "missing",   junctions |-> <<>>, edges |-> <<>>],
      [file |-> "malformed", junctions |-> <<>>, edges |-> <<>>] }
    \cup
    { [file |-> "ok", junctions |-> js, edges |-> es] :
          js \in SeqsUpTo(JunctionPool, maxJunctions), es \in SeqsUpTo(EdgePool, maxEdges) }

----------------------------------------------------------------------------
(* network_analyzer.py: analyze_network *)

\* Lines 15-21: the nodes dict; a later junction replaces an earlier one of
\* the same id.
RECURSIVE Nodes(_)
Nodes(junctions) ==
    IF junctions = <<>> THEN [k \in {} |-> [x |-> 0, y |-> 0]]
    ELSE LET prev == Nodes(SubSeq(junctions, 1, Len(junctions) - 1))
             j    == junctions[Len(junctions)]
         IN  [k \in DOMAIN prev \cup {j.id} |->
                 IF k = j.id THEN [x |-> FloatOrZero(j.x), y |-> FloatOrZero(j.y)]
                 ELSE prev[k]]

\* Lines 19-20: a junction whose x or y float() rejects.
JunctionRaises(j) == FloatRaises(j.x) \/ FloatRaises(j.y)

\* Lines 42-43: `if edge_id and edge_id.startswith(':'): continue`.
Internal(edge) == Truthy(edge.id) /\ StartsWith(edge.id[1], ":")

\* Line 45: `if from_node and to_node and from_node in nodes and to_node in nodes`.
Connected(edge, nodes) ==
    /\ Truthy(edge.from)
    /\ Truthy(edge.to)
    /\ edge.from \in DOMAIN nodes
    /\ edge.to \in DOMAIN nodes

\* Lines 36-45: the edges that get past both tests.
Kept(edge, nodes) == ~Internal(edge) /\ Connected(edge, nodes)

\* Lines 47-50: the length of the first lane child, 0 without one.
DeclaredLength(edge) ==
    IF edge.lanes = <<>> THEN 0 ELSE FloatOrZero(edge.lanes[1])

\* The distance computed as |dx| + |dy|.
ManhattanLength(from_node, to_node, nodes) ==
    LET dx == nodes[to_node].x - nodes[from_node].x
        dy == nodes[to_node].y - nodes[from_node].y
    IN  (IF dx < 0 THEN -dx ELSE dx) + (IF dy < 0 THEN -dy ELSE dy)

\* Lines 53-55: the distance between the two junctions.
CalculatedLength(from_node, to_node, nodes) ==
    LET x1 == nodes[from_node].x
        y1 == nodes[from_node].y
        x2 == nodes[to_node].x
        y2 == nodes[to_node].y
    IN  Sqrt((x2 - x1) * (x2 - x1) + (y2 - y1) * (y2 - y1))

\* Lines 57-63: the dict appended for an edge.
Connection(edge, nodes) ==
    [edge       |-> edge.id,
     from       |-> edge.from[1],
     to         |-> edge.to[1],
     declared   |-> DeclaredLength(edge),
     calculated |-> CalculatedLength(edge.from, edge.to, nodes)]

\* What raises while a kept edge is handled: float() on the lane's length
\* (line 50), or the format spec `{edge_id:<8}` applied to None (line 65).
EdgeRaises(edge, nodes) ==
    /\ Kept(edge, nodes)
    /\ \/ (edge.lanes # <<>> /\ FloatRaises(edge.lanes[1]))
       \/ edge.id = None

\* Lines 36-65: the connections list after the loop over the edges.
RECURSIVE Connections(_, _)
Connections(edges, nodes) ==
    IF edges = <<>> THEN <<>>
    ELSE LET rest == Connections(SubSeq(edges, 1, Len(edges) - 1), nodes)
             edge == edges[Len(edges)]
         IN  IF Kept(edge, nodes) THEN Append(rest, Connection(edge, nodes)) ELSE rest

\* The exception analyze_network's try block ends with, "none" when it returns.
NetRaised(n) ==
    IF n.file = "missing" THEN "FileNotFoundError"
    ELSE IF n.file = "malformed" THEN "ParseError"
    ELSE IF \E i \in 1..Len(n.junctions) : JunctionRaises(n.junctions[i]) THEN "ValueError"
    ELSE IF \E i \in 1..Len(n.edges) : EdgeRaises(n.edges[i], Nodes(n.junctions))
         THEN "ValueError"
    ELSE "none"

\* Lines 103-108: `except ET.ParseError` and `except Exception`.
NetCaught(exc) == exc \in {"FileNotFoundError", "ParseError", "ValueError"}

NetMessage(exc) ==
    IF exc = "ParseError" THEN "error_parsing" ELSE "error_analyzing"

NotReturned == [returned |-> FALSE, isNone |-> FALSE, list |-> <<>>, message |-> "none"]

\* Nothing of the analysis printed yet.
NoReport == [discrepancies |-> <<>>, comparison |-> <<>>]

Abs(n) == IF n < 0 THEN -n ELSE n

\* Lines 82-85: the lines of the discrepancy analysis.
Discrepancies(list) ==
    LET diff(conn) == Abs(conn.declared - conn.calculated)
        big == SelectSeq(list, LAMBDA conn : diff(conn) > 10)
    IN  [i \in 1..Len(big) |-> [edge |-> big[i].edge, diff |-> diff(big[i])]]

\* Lines 117-133: the distances of the diagram.
expected ==
    <<"E", "0">> :> 860 @@ <<"E", "1">> :> 900 @@ <<"E", "2">> :> 940 @@
    <<"E", "3">> :> 1300 @@ <<"E", "4">> :> 410 @@ <<"E", "1", "1">> :> 260 @@
    <<"E", "1", "0">> :> 120 @@ <<"E", "1", "7">> :> 260 @@ <<"E", "1", "8">> :> 700 @@
    <<"E", "1", "4">> :> 900 @@ <<"E", "1", "5">> :> 750 @@ <<"E", "1", "2">> :> 650 @@
    <<"E", "1", "6">> :> 750 @@ <<"E", "7">> :> 130 @@ <<"E", "8">> :> 480

\* A status that takes a difference of 10 for a match.
StatusUpToTen(diff) == IF Abs(diff) <= 10 THEN "Match" ELSE "Mismatch"

\* Line 145: the status of a row.
Status(diff) == IF Abs(diff) < 10 THEN "Match" ELSE "Mismatch"

\* Lines 138-146: the rows compare_with_diagram prints.
compare_with_diagram(list) ==
    LET known == SelectSeq(list, LAMBDA conn : conn.edge # None /\ conn.edge[1] \in DOMAIN expected)
    IN  [i \in 1..Len(known) |->
            [edge   |-> known[i].edge,
             exp    |-> expected[known[i].edge[1]],
             diff   |-> known[i].declared - expected[known[i].edge[1]],
             status |-> Status(known[i].declared - expected[known[i].edge[1]])]]

\* Lines 4-108: the value analyze_network returns and the error it prints.
analyze_network(n) ==
    IF NetRaised(n) = "none"
    THEN [returned |-> TRUE, isNone |-> FALSE,
          list |-> Connections(n.edges, Nodes(n.junctions)), message |-> "none"]
    ELSE [returned |-> TRUE, isNone |-> TRUE, list |-> <<>>,
          message |-> NetMessage(NetRaised(n))]

----------------------------------------------------------------------------
(* run_simulation.py: what the simulator answers through TraCI *)

\* The ids traci.vehicle.getIDList can return, in the order it returns them.
IdLists == { <<>>, <<"v1">>, <<"v1", "v2">> }

\* DATA_INTERVAL of main, in simulation steps (the simulator's step is 1 s).
DataIntervals == {1, 2}

\* getSpeed, getDistance and getWaitingTime of a vehicle on the road.
SampleA == [speed |-> 2, distance |-> 1, waiting |-> 1]
SampleB == [speed |-> 1, distance |-> 3, waiting |-> 0]

\* The five getParameter("device.battery...") calls of lines 185-191:
\* failsAt = k when the k-th call raises, 0 when none does.
NoDevice    == [failsAt |-> 1, capacity |-> 0,  max |-> 0,   station |-> "NULL"]
MaxRaises   == [failsAt |-> 2, capacity |-> 50, max |-> 0,   station |-> "NULL"]
EmptyDevice == [failsAt |-> 0, capacity |-> 0,  max |-> 0,   station |-> "NULL"]
Driving     == [failsAt |-> 0, capacity |-> 50, max |-> 100, station |-> "NULL"]
StationRaises == [failsAt |-> 5, capacity |-> 50, max |-> 100, station |-> "NULL"]
Charging    == [failsAt |-> 0, capacity |-> 80, max |-> 100, station |-> "cs1"]

\* What the queries about one vehicle do: the basic queries of lines 167-174
\* raise (basic names the exception) or answer with a sample, and then the
\* battery device answers.
VehicleAnswers ==
    { [basic |-> "TraCIException", sample |-> SampleA, battery |-> NoDevice],
      [basic |-> "Exception",      sample |-> SampleA, battery |-> NoDevice],
      [basic |-> "ok", sample |-> SampleA, battery |-> NoDevice],
      [basic |-> "ok", sample |-> SampleB, battery |-> MaxRaises],
      [basic |-> "ok", sample |-> SampleB, battery |-> EmptyDevice],
      [basic |-> "ok", sample |-> SampleA, battery |-> Driving],
      [basic |-> "ok", sample |-> SampleA, battery |-> StationRaises],
      [basic |-> "ok", sample |-> SampleB, battery |-> Charging] }

\* speed * 3.6, in tenths of a km/h.
Kmh(speed) == 36 * speed

Max(a, b) == IF a >= b THEN a ELSE b

----------------------------------------------------------------------------
(* run_simulation.py: Test1SUMOExporter._collect_data *)

\* Lines 177-205: the locals after the inner try block; its bare except
\* leaves them as they were when a getParameter call raised.
BatteryLocals(b) ==
    LET got(k) == b.failsAt = 0 \/ b.failsAt > k
        charging == got(5) /\ b.station # "" /\ b.station # "NULL"
    IN  [battery_capacity |-> IF got(1) THEN b.capacity ELSE 0,
         max_battery      |-> IF got(2) THEN b.max ELSE 0,
         charging_station |-> IF charging THEN b.station ELSE "NULL",
         event            |-> charging]

\* Lines 201 and 215: the state of charge in percent.
Soc(battery_capacity, max_battery) ==
    IF max_battery > 0 THEN (battery_capacity * 100) \div max_battery ELSE 0

\* A test that lets a device without capacity through.
BatteryActiveOrEmpty(max_battery) == max_battery >= 0

\* Line 208: `if max_battery > 0`.
BatteryActive(max_battery) == max_battery > 0

\* A trip entry that keeps the speed of the last sample only.
TripOverwrite(trips, veh_id, t, sample) ==
    LET old == IF veh_id \in DOMAIN trips THEN trips[veh_id]
               ELSE [vehicle_id |-> veh_id, depart_time |-> t, max_speed_kmh |-> 0,
                     total_waiting_time |-> 0, final_distance |-> 0]
        new == [old EXCEPT !.max_speed_kmh = Kmh(sample.speed),
                           !.total_waiting_time = old.total_waiting_time + sample.waiting,
                           !.final_distance = sample.distance]
    IN  [k \in DOMAIN trips \cup {veh_id} |-> IF k = veh_id THEN new ELSE trips[k]]

\* Lines 245-262: the trip entry of a vehicle after a sample.
TripUpdate(trips, veh_id, t, sample) ==
    LET old == IF veh_id \in DOMAIN trips THEN trips[veh_id]
               ELSE [vehicle_id |-> veh_id, depart_time |-> t, max_speed_kmh |-> 0,
                     total_waiting_time |-> 0, final_distance |-> 0]
        new == [old EXCEPT !.max_speed_kmh = Max(old.max_speed_kmh, Kmh(sample.speed)),
                           !.total_waiting_time = old.total_waiting_time + sample.waiting,
                           !.final_distance = sample.distance]
    IN  [k \in DOMAIN trips \cup {veh_id} |-> IF k = veh_id THEN new ELSE trips[k]]

\* Lines 165-269: the body of the loop for one vehicle.  d holds the four
\* containers.  A basic query that raises is caught at line 264 or 267 and
\* the loop continues.
CollectVehicle(d, t, veh_id, a) ==
    IF a.basic # "ok" THEN d
    ELSE LET loc == BatteryLocals(a.battery)
             ev  == [timestep |-> t, vehicle_id |-> veh_id,
                     charging_station |-> loc.charging_station,
                     battery_soc_percent |-> Soc(loc.battery_capacity, loc.max_battery)]
             bat == [timestep_sec |-> t, vehicle_id |-> veh_id,
                     maximumBatteryCapacity_Wh |-> loc.max_battery,
                     battery_soc_percent |-> Soc(loc.battery_capacity, loc.max_battery),
                     chargingStationId |-> loc.charging_station]
             rt  == [timestep_sec |-> t, vehicle_id |-> veh_id,
                     speed_kmh |-> Kmh(a.sample.speed),
                     distance_traveled_m |-> a.sample.distance,
                     waiting_time_sec |-> a.sample.waiting]
         IN  [battery_data    |-> IF BatteryActive(loc.max_battery)
                                  THEN Append(d.battery_data, bat) ELSE d.battery_data,
              realtime_data   |-> Append(d.realtime_data, rt),
              trip_data       |-> TripUpdate(d.trip_data, veh_id, t, a.sample),
              charging_events |-> IF loc.event
                                  THEN Append(d.charging_events, ev) ELSE d.charging_events]

\* A loop with its try block around it: the first vehicle whose basic
\* queries raise ends the collection.
RECURSIVE CollectDataUntilError(_, _, _, _)
CollectDataUntilError(d, t, ids, answers) ==
    IF ids = <<>> THEN d
    ELSE IF \E i \in 1..(Len(ids) - 1) : answers[i].basic # "ok"
         THEN CollectDataUntilError(d, t, SubSeq(ids, 1, Len(ids) - 1), answers)
         ELSE CollectVehicle(CollectDataUntilError(d, t, SubSeq(ids, 1, Len(ids) - 1), answers),
                             t, ids[Len(ids)], answers[Len(ids)])

\* Lines 162-269: the loop over the ids; answers[i] is what the queries
\* about ids[i] do.
RECURSIVE CollectData(_, _, _, _)
CollectData(d, t, ids, answers) ==
    IF ids = <<>> THEN d
    ELSE CollectVehicle(CollectData(d, t, SubSeq(ids, 1, Len(ids) - 1), answers),
                        t, ids[Len(ids)], answers[Len(ids)])

\* Lines 56-60: the containers __init__ creates.
NoData == [battery_data |-> <<>>, realtime_data |-> <<>>, trip_data |-> <<>>,
           charging_events |-> <<>>]

\* run_simulation.py is not the script being run.
ExporterIdle ==
    /\ epc = "none"
    /\ step_length = 0
    /\ simulation_time = 0
    /\ next_collection_time = 0
    /\ collections = <<>>
    /\ battery_data = <<>>
    /\ realtime_data = <<>>
    /\ trip_data = <<>>
    /\ charging_events = <<>>
    /\ started = FALSE
    /\ closes = 0
    /\ raised = "none"
    /\ success = "none"
    /\ csv_exports = <<>>
    /\ excel = "none"

----------------------------------------------------------------------------
(* Initial state: the script has just been started *)

Init ==
    /\ argv \in ArgLists
    /\ pc = "main"
    /\ mode = "none"
    /\ idx = 0
    /\ reader = "none"
    /\ path = "none"
    /\ files \in [Files -> FileStates]
    /\ file_sizes = [f \in Files |-> 0]
    /\ res = NoRes
    /\ calls = <<>>
    /\ printed = "none"
    /\ lastRead = [f \in Files |-> 0]
    /\ net = NoNet
    /\ connections = NotReturned
    /\ report = NoReport
    /\ ExporterIdle

----------------------------------------------------------------------------
(* vehicle_monitor.py: the __main__ block *)

\* Lines 203-216.
Main ==
    /\ pc = "main"
    /\ mode' = Dispatch(argv)
    /\ pc' = CASE Dispatch(argv) = "live"    -> "exists"
               [] Dispatch(argv) = "oneshot" -> "call"
               [] OTHER                      -> "done"
    /\ idx' = IF Dispatch(argv) \in {"live", "oneshot"} THEN 1 ELSE idx
    /\ printed' = CASE Dispatch(argv) = "help"    -> "usage"
                    [] Dispatch(argv) = "unknown" -> "unknown_option"
                    [] OTHER                      -> printed
    /\ UNCHANGED <<argv, reader, path, files, file_sizes, res, calls, lastRead, net,
                   connections, report, exporterVars>>

----------------------------------------------------------------------------
(* vehicle_monitor.py: the readers *)

\* A reader is entered: read_all_files line 195-197, or the live loop.
Enter(rd, p) ==
    /\ reader' = rd
    /\ path' = p
    /\ calls' = Append(calls, [reader |-> rd, path |-> p])
    /\ res' = NoRes
    /\ pc' = "rd_exists"

\* `if not os.path.exists(file_path): print(...); return` (lines 8, 46, 82, 119).
ReaderExists ==
    /\ pc = "rd_exists"
    /\ IF files[path].exists
       THEN /\ pc' = "rd_parse"
            /\ res' = res
       ELSE /\ pc' = "rd_ret"
            /\ res' = [outcome |-> "not_found", message |-> "not_found",
                       processed |-> 0, recs |-> <<>>]
    /\ UNCHANGED <<argv, mode, idx, reader, path, files, file_sizes, calls,
                   printed, lastRead, net, connections, report, exporterVars>>

\* The try block of a reader: ET.parse, the loop over the records, and the
\* except clauses (lines 12-42, 50-78, 86-115, 123-147).
Parse(observed) ==
    /\ pc = "rd_parse"
    /\ \E doc \in (IF files[path].exists THEN Docs(files[path].size) ELSE {Malformed}) :
         LET exc  == Raised(files[path].exists, doc)
             done == Processed(files[path].exists, doc)
             recs == IF files[path].exists THEN doc.recs ELSE <<>>
         IN  /\ IF exc = "none"
                THEN /\ res' = [outcome |-> "read", message |-> "none",
                                processed |-> done, recs |-> recs]
                     /\ pc' = "rd_ret"
                ELSE IF Caught(reader, exc)
                THEN /\ res' = [outcome |-> exc, message |-> HandlerMessage(reader, exc),
                                processed |-> done, recs |-> recs]
                     /\ pc' = "rd_ret"
                ELSE /\ res' = [outcome |-> exc, message |-> "none",
                                processed |-> done, recs |-> recs]
                     /\ pc' = "crashed"
             /\ lastRead' = IF observed /\ exc # "FileNotFoundError"
                            THEN [lastRead EXCEPT ![path] = files[path].size]
                            ELSE lastRead
    /\ UNCHANGED <<argv, mode, idx, reader, path, files, file_sizes, calls, printed,
                   net, connections, report, exporterVars>>

ReaderParse == Parse(FALSE)

\* The same step, with the size of what was read kept in lastRead.
ReaderParseObserved == Parse(TRUE)

\* The live loop goes on to the next file, or sleeps after the last one.
Advance ==
    IF idx < Len(files_to_monitor)
    THEN /\ idx' = idx + 1
         /\ pc' = "exists"
    ELSE /\ idx' = idx
         /\ pc' = "sleep"

\* A reader returns to its caller.
ReaderReturn ==
    /\ pc = "rd_ret"
    /\ res' = NoRes
    /\ reader' = "none"
    /\ path' = "none"
    /\ CASE mode = "oneshot" ->
              IF idx < Len(read_all_files_calls)
              THEN idx' = idx + 1 /\ pc' = "call"
              ELSE idx' = idx /\ pc' = "banner"
         [] mode = "live" -> Advance
         [] OTHER -> idx' = idx /\ pc' = "done"
    /\ UNCHANGED <<argv, mode, files, file_sizes, calls, printed, lastRead, net, connections, report, exporterVars>>

----------------------------------------------------------------------------
(* vehicle_monitor.py: read_all_files *)

\* Lines 195-197: the next reader call.
OneShotCall ==
    /\ pc = "call"
    /\ Enter(read_all_files_calls[idx].reader, read_all_files_calls[idx].path)
    /\ UNCHANGED <<argv, mode, idx, files, file_sizes, printed, lastRead, net, connections, report, exporterVars>>

\* Lines 199-201: the closing banner.
Banner ==
    /\ pc = "banner"
    /\ printed' = "complete"
    /\ pc' = "done"
    /\ UNCHANGED <<argv, mode, idx, reader, path, files, file_sizes, res, calls,
                   lastRead, net, connections, report, exporterVars>>

----------------------------------------------------------------------------
(* vehicle_monitor.py: monitor_simulation_live *)

\* The test written with # (any change of size).
Differs(current_size, last_size) == current_size # last_size

\* The test written with >=.
GrewOrSame(current_size, last_size) == current_size >= last_size

\* Line 172: the test that decides a re-read.
Grew(current_size, last_size) == current_size > last_size

\* Line 170: os.path.exists(filename).
LiveExists ==
    /\ pc = "exists"
    /\ IF files[files_to_monitor[idx]].exists
       THEN pc' = "getsize" /\ idx' = idx
       ELSE Advance
    /\ UNCHANGED <<argv, mode, reader, path, files, file_sizes, res, calls,
                   printed, lastRead, net, connections, report, exporterVars>>

\* Lines 171-182: os.path.getsize, the comparison, the update of file_sizes and
\* the reader call.  getsize raises OSError when the file has gone; the loop
\* catches KeyboardInterrupt only.
LiveGetSize ==
    /\ pc = "getsize"
    /\ LET filename == files_to_monitor[idx] IN
       IF ~files[filename].exists
       THEN /\ pc' = "crashed"
            /\ UNCHANGED <<idx, reader, path, file_sizes, res, calls>>
       ELSE IF Grew(files[filename].size, file_sizes[filename])
       THEN /\ file_sizes' = [file_sizes EXCEPT ![filename] = files[filename].size]
            /\ IF ReaderFor(filename) # "none"
               THEN Enter(ReaderFor(filename), filename) /\ idx' = idx
               ELSE Advance /\ UNCHANGED <<reader, path, res, calls>>
       ELSE /\ Advance
            /\ UNCHANGED <<reader, path, file_sizes, res, calls>>
    /\ UNCHANGED <<argv, mode, files, printed, lastRead, net, connections, report, exporterVars>>

\* Line 184: time.sleep(1), then the next polling cycle.
LiveSleep ==
    /\ pc = "sleep"
    /\ pc' = "exists"
    /\ idx' = 1
    /\ calls' = <<>>
    /\ UNCHANGED <<argv, mode, reader, path, files, file_sizes, res, printed,
                   lastRead, net, connections, report, exporterVars>>

LivePcs == {"exists", "getsize", "rd_exists", "rd_parse", "rd_ret", "sleep"}

\* Lines 186-187: Ctrl+C anywhere inside the try block.  KeyboardInterrupt is
\* not an Exception, so a reader's except clause lets it through.
Interrupt ==
    /\ mode = "live"
    /\ pc \in LivePcs
    /\ pc' = "stopped"
    /\ printed' = "stopped_by_user"
    /\ UNCHANGED <<argv, mode, idx, reader, path, files, file_sizes, res, calls,
                   lastRead, net, connections, report, exporterVars>>

----------------------------------------------------------------------------
(* The simulator, which writes the monitored files *)

\* The simulator runs beside vehicle_monitor.py for as long as that runs.
Running == pc \in {"main", "call", "banner"} \cup LivePcs

\* The simulator appends to a file.
SimWrite(f) ==
    /\ Running
    /\ files[f].exists
    /\ files[f].size < MaxSize
    /\ files' = [files EXCEPT ![f].size = @ + 1]
    /\ UNCHANGED <<argv, pc, mode, idx, reader, path, file_sizes, res, calls,
                   printed, lastRead, net, connections, report, exporterVars>>

\* The simulator creates a file, or truncates it to start over.
SimTruncate(f) ==
    /\ Running
    /\ files[f] # [exists |-> TRUE, size |-> 0]
    /\ files' = [files EXCEPT ![f] = [exists |-> TRUE, size |-> 0]]
    /\ UNCHANGED <<argv, pc, mode, idx, reader, path, file_sizes, res, calls,
                   printed, lastRead, net, connections, report, exporterVars>>

\* The file is removed.
SimDelete(f) ==
    /\ Running
    /\ files[f].exists
    /\ files' = [files EXCEPT ![f] = Absent]
    /\ UNCHANGED <<argv, pc, mode, idx, reader, path, file_sizes, res, calls,
                   printed, lastRead, net, connections, report, exporterVars>>

Simulator == \E f \in Files : SimWrite(f) \/ SimTruncate(f) \/ SimDelete(f)

Monitor == LiveExists \/ LiveGetSize \/ LiveSleep

Reader == ReaderExists \/ ReaderParse \/ ReaderReturn

OneShot == OneShotCall \/ Banner

Next == Main \/ OneShot \/ Reader \/ Monitor \/ Interrupt \/ Simulator

Spec == Init /\ [][Next]_vars

----------------------------------------------------------------------------
(* network_analyzer.py: the __main__ block *)

\* Lines 173-174 of the __main__ block: the call.
Analyze ==
    /\ pc = "analyze"
    /\ IF NetRaised(net) = "none" \/ NetCaught(NetRaised(net))
       THEN /\ connections' = analyze_network(net)
            /\ report' = [report EXCEPT
                             !.discrepancies = Discrepancies(analyze_network(net).list)]
            /\ pc' = "analyzed"
       ELSE /\ connections' = connections
            /\ report' = report
            /\ pc' = "crashed"
    /\ UNCHANGED <<monitorVars, printed, net, exporterVars>>

\* Lines 176-180: `if connections:` is false for None and for an empty list.
NetReport ==
    /\ pc = "analyzed"
    /\ IF ~connections.isNone /\ connections.list # <<>>
       THEN /\ report' = [report EXCEPT
                             !.comparison = compare_with_diagram(connections.list)]
            /\ printed' = "update_guide"
       ELSE /\ report' = report
            /\ printed' = "failed_to_analyze"
    /\ pc' = "done"
    /\ UNCHANGED <<monitorVars, net, connections, exporterVars>>

----------------------------------------------------------------------------
(* The read operations called on their own *)

InitOps ==
    /\ argv = <<>>
    /\ idx = 0
    /\ file_sizes = [f \in Files |-> 0]
    /\ res = NoRes
    /\ printed = "none"
    /\ lastRead = [f \in Files |-> 0]
    /\ connections = NotReturned
    /\ report = NoReport
    /\ ExporterIdle
    /\ \/ /\ mode = "call"
          /\ pc = "rd_exists"
          /\ reader \in Readers
          /\ path \in Files
          /\ calls = <<[reader |-> reader, path |-> path]>>
          /\ files \in [Files -> FileStates]
          /\ net = NoNet
       \/ /\ mode = "network_analyzer"
          /\ pc = "analyze"
          /\ reader = "none"
          /\ path = "none"
          /\ calls = <<>>
          /\ files = [f \in Files |-> Absent]
          /\ net \in NetFiles(MaxJunctions, MaxEdges)

NextOps == Reader \/ Simulator \/ Analyze \/ NetReport

SpecOps == InitOps /\ [][NextOps]_vars

----------------------------------------------------------------------------
(* network_analyzer.py run on networks drawn to the scale of the diagram *)

\* Two junctions 120 m apart: n0 at (0, 0) and n1 at (120, 0).
DiagramJunctions ==
    << [id |-> Some(<<"n", "0">>), x |-> None,           y |-> None],
       [id |-> Some(<<"n", "1">>), x |-> Some(Num(120)), y |-> Some(Num(0))] >>

\* Lane lengths on both sides of, and exactly, 10 m away from 120 (the
\* calculated length, and the diagram's E10) and from 860 (the diagram's E0).
DiagramLengths == {109, 110, 111, 120, 129, 130, 131, 850, 851, 860, 870}

\* Edges from n0 to n1, two of them named in the diagram and one not.
DiagramEdgePool ==
    { [id |-> Some(i), from |-> Some(<<"n", "0">>), to |-> Some(<<"n", "1">>),
       lanes |-> <<Some(Num(l))>>] :
          i \in {<<"E", "0">>, <<"E", "1", "0">>, <<"X", "1">>},
          l \in DiagramLengths }

DiagramNetFiles(maxEdges) ==
    { [file |-> "ok", junctions |-> DiagramJunctions, edges |-> es] :
          es \in SeqsUpTo(DiagramEdgePool, maxEdges) }

InitDiagram ==
    /\ argv = <<>>
    /\ idx = 0
    /\ file_sizes = [f \in Files |-> 0]
    /\ res = NoRes
    /\ printed = "none"
    /\ lastRead = [f \in Files |-> 0]
    /\ connections = NotReturned
    /\ report = NoReport
    /\ ExporterIdle
    /\ mode = "network_analyzer"
    /\ pc = "analyze"
    /\ reader = "none"
    /\ path = "none"
    /\ calls = <<>>
    /\ files = [f \in Files |-> Absent]
    /\ net \in DiagramNetFiles(MaxEdges)

NextDiagram == Analyze \/ NetReport

SpecDiagram == InitDiagram /\ [][NextDiagram]_vars

----------------------------------------------------------------------------
(* Live mode left to run: no Ctrl+C, and the script keeps taking steps *)

InitLive ==
    /\ Init
    /\ Dispatch(argv) = "live"

Script == Main \/ ReaderExists \/ ReaderParseObserved \/ ReaderReturn \/ Monitor

NextLive == Script \/ Simulator

SpecLive == InitLive /\ [][NextLive]_vars /\ WF_vars(Script)

----------------------------------------------------------------------------
(* run_simulation.py: main and Test1SUMOExporter.run_simulation *)

\* The calls of run_simulation's try block that can raise.
SimFaults == {"start", "expected", "step", "collect", "close"}

\* A handler for the exceptions of the step loop only.
SimCaughtInLoop(fault) == fault \in {"expected", "step", "collect"}

\* Line 150: `except Exception` catches whatever the try block raises.
SimCaught(fault) == fault \in SimFaults

\* An exception raised in the try block of lines 115-148.
SimRaise(fault) ==
    /\ raised' = fault
    /\ epc' = IF SimCaught(fault) THEN "except" ELSE "crashed"

\* The containers as one record, and back.
Data == [battery_data |-> battery_data, realtime_data |-> realtime_data,
         trip_data |-> trip_data, charging_events |-> charging_events]

SetData(d) ==
    /\ battery_data' = d.battery_data
    /\ realtime_data' = d.realtime_data
    /\ trip_data' = d.trip_data
    /\ charging_events' = d.charging_events

dataVars == <<battery_data, realtime_data, trip_data, charging_events>>

otherVars == <<argv, pc, mode, idx, reader, path, files, file_sizes, res, calls,
               lastRead, net, connections, report>>

\* Lines 467-477: main returns when Test1.sumocfg is missing, else creates
\* the exporter.
ExporterMain ==
    /\ epc = "main"
    /\ \E cfg_exists \in BOOLEAN :
          IF cfg_exists
          THEN epc' = "start" /\ printed' = printed
          ELSE epc' = "done" /\ printed' = "config_not_found"
    /\ UNCHANGED <<otherVars, step_length, simulation_time, next_collection_time,
                   collections, dataVars, started, closes, raised, success,
                   csv_exports, excel>>

\* Lines 115-122: traci.start and the loop's variables.
SimStart ==
    /\ epc = "start"
    /\ \/ /\ started' = TRUE
          /\ epc' = "loop"
          /\ raised' = raised
       \/ /\ started' = started
          /\ SimRaise("start")
    /\ simulation_time' = 0
    /\ next_collection_time' = 0
    /\ UNCHANGED <<otherVars, printed, step_length, collections, dataVars, closes,
                   success, csv_exports, excel>>

\* Line 125: `while traci.simulation.getMinExpectedNumber() > 0`.
SimExpected ==
    /\ epc = "loop"
    /\ \/ /\ simulation_time < MaxSteps
          /\ epc' = "step"
          /\ raised' = raised
       \/ /\ epc' = "close"
          /\ raised' = raised
       \/ SimRaise("expected")
    /\ UNCHANGED <<otherVars, printed, step_length, simulation_time, next_collection_time,
                   collections, dataVars, started, closes, success, csv_exports, excel>>

\* Line 131: the test that decides a collection.
Due(time, next_time) == time >= next_time

\* Lines 127-138: one pass of the loop; the simulator's step is 1 s.
SimStep ==
    /\ epc = "step"
    /\ \/ /\ SimRaise("step")
          /\ UNCHANGED <<simulation_time, next_collection_time, collections, dataVars>>
       \/ /\ simulation_time' = simulation_time + 1
          /\ IF Due(simulation_time', next_collection_time)
             THEN /\ collections' = Append(collections, simulation_time')
                  /\ \/ /\ SimRaise("collect")
                        /\ UNCHANGED <<next_collection_time, dataVars>>
                     \/ /\ \E ids \in IdLists :
                             \E answers \in [1..Len(ids) -> VehicleAnswers] :
                                SetData(CollectData(Data, simulation_time', ids, answers))
                        /\ next_collection_time' = next_collection_time + step_length
                        /\ epc' = "loop"
                        /\ raised' = raised
             ELSE /\ epc' = "loop"
                  /\ UNCHANGED <<next_collection_time, collections, dataVars, raised>>
    /\ UNCHANGED <<otherVars, printed, step_length, started, closes, success,
                   csv_exports, excel>>

\* Lines 140-148: traci.close and `return True`.
SimClose ==
    /\ epc = "close"
    /\ closes' = closes + 1
    /\ \/ /\ success' = "True"
          /\ epc' = "returned"
          /\ raised' = raised
       \/ /\ success' = success
          /\ SimRaise("close")
    /\ UNCHANGED <<otherVars, printed, step_length, simulation_time, next_collection_time,
                   collections, dataVars, started, csv_exports, excel>>

\* Lines 150-157: the handler closes the connection (an exception of this
\* close is swallowed) and returns False.
SimExcept ==
    /\ epc = "except"
    /\ closes' = closes + 1
    /\ success' = "False"
    /\ epc' = "returned"
    /\ UNCHANGED <<otherVars, printed, step_length, simulation_time, next_collection_time,
                   collections, dataVars, started, raised, csv_exports, excel>>

\* Lines 480-489 of main: `if not success: return`.
MainAfter ==
    /\ epc = "returned"
    /\ IF success = "True"
       THEN epc' = "export_csv" /\ printed' = printed
       ELSE epc' = "done" /\ printed' = "simulation_failed"
    /\ UNCHANGED <<otherVars, step_length, simulation_time, next_collection_time,
                   collections, dataVars, started, closes, raised, success,
                   csv_exports, excel>>

----------------------------------------------------------------------------
(* run_simulation.py: the exports *)

\* The containers in the order export_to_csv goes through them.
Containers == <<"battery_data", "realtime_data", "trip_data", "charging_events">>

\* `if self.battery_data:` and the like.
NonEmpty(d, i) == d[Containers[i]] # <<>>

\* The to_csv calls that can raise (0: none raises): one per non-empty container.
CsvFailures(d) == {0} \cup {i \in 1..Len(Containers) : NonEmpty(d, i)}

\* Lines 271-319: the files written and the warnings printed by one call in
\* which the to_csv call for container failAt raises (export_to_csv has no
\* try block: the exception leaves it).
export_to_csv(d, failAt) ==
    LET reached == {i \in 1..Len(Containers) : failAt = 0 \/ i < failAt}
    IN  [written |-> {Containers[i] : i \in {j \in reached : NonEmpty(d, j)}},
         warned  |-> {Containers[i] : i \in {j \in reached : ~NonEmpty(d, j)}},
         raised  |-> failAt # 0]

\* Line 492 of main: the CSV export.
MainExportCsv ==
    /\ epc = "export_csv"
    /\ \E failAt \in CsvFailures(Data) :
          /\ csv_exports' = Append(csv_exports, export_to_csv(Data, failAt))
          /\ epc' = IF failAt # 0 THEN "crashed" ELSE "export_excel"
    /\ UNCHANGED <<otherVars, printed, step_length, simulation_time, next_collection_time,
                   collections, dataVars, started, closes, raised, success, excel>>

\* Lines 494-509 of main with export_to_excel (lines 321-451): the workbook
\* is written, or an exception is caught at line 448 and export_to_csv is
\* called.
MainExportExcel ==
    /\ epc = "export_excel"
    /\ \/ /\ excel' = "created"
          /\ csv_exports' = csv_exports
          /\ epc' = "done"
          /\ printed' = "export_complete"
       \/ /\ excel' = "failed"
          /\ \E failAt \in CsvFailures(Data) :
                /\ csv_exports' = Append(csv_exports, export_to_csv(Data, failAt))
                /\ IF failAt # 0
                   THEN epc' = "crashed" /\ printed' = printed
                   ELSE epc' = "done" /\ printed' = "export_complete"
    /\ UNCHANGED <<otherVars, step_length, simulation_time, next_collection_time,
                   collections, dataVars, started, closes, raised, success>>

\* run_simulation.py started as a script.
InitSim ==
    /\ argv = <<>>
    /\ pc = "done"
    /\ mode = "run_simulation"
    /\ idx = 0
    /\ reader = "none"
    /\ path = "none"
    /\ files = [f \in Files |-> Absent]
    /\ file_sizes = [f \in Files |-> 0]
    /\ res = NoRes
    /\ calls = <<>>
    /\ printed = "none"
    /\ lastRead = [f \in Files |-> 0]
    /\ net = NoNet
    /\ connections = NotReturned
    /\ report = NoReport
    /\ epc = "main"
    /\ step_length \in DataIntervals
    /\ simulation_time = 0
    /\ next_collection_time = 0
    /\ collections = <<>>
    /\ battery_data = NoData.battery_data
    /\ realtime_data = NoData.realtime_data
    /\ trip_data = NoData.trip_data
    /\ charging_events = NoData.charging_events
    /\ started = FALSE
    /\ closes = 0
    /\ raised = "none"
    /\ success = "none"
    /\ csv_exports = <<>>
    /\ excel = "none"

RunSimulation == SimStart \/ SimExpected \/ SimStep \/ SimClose \/ SimExcept

NextSim == ExporterMain \/ RunSimulation \/ MainAfter \/ MainExportCsv \/ MainExportExcel

SpecSim == InitSim /\ [][NextSim]_vars

----------------------------------------------------------------------------
(* Properties of run_simulation.py *)

\* C11: _collect_data is called at most once per simulation step, first at
\* the first step, and any two consecutive calls are at least step_length
\* seconds of simulation time apart.
C11_CollectionsAtInterval ==
    /\ simulation_time >= 1 => (collections # <<>> /\ collections[1] = 1)
    /\ \A i \in 1..(Len(collections) - 1) :
          /\ collections[i + 1] > collections[i]
          /\ collections[i + 1] - collections[i] >= step_length

\* C12: run_simulation returns True exactly when the loop was left by its
\* while test and nothing raised, and False when starting, stepping,
\* collecting or closing raised; no exception leaves it; when the connection
\* was started a close has been attempted before it returns; after False,
\* main exports nothing.
C12_ReturnValueAndClose ==
    [][ /\ success' # success =>
              /\ success = "none"
              /\ epc' = "returned"
              /\ success' = "True" <=> (epc = "close" /\ raised' = "none")
              /\ success' = "False" <=> raised' \in SimFaults
              /\ started => closes' >= 1
        /\ (epc' = "close" /\ epc # "close") => (epc = "loop" /\ raised' = "none")
        /\ raised' # raised => (raised = "none" /\ epc' = "except")
        /\ (epc = "except" /\ epc' # epc) =>
              (epc' = "returned" /\ success' = "False" /\ closes' = closes + 1)
        /\ success = "False" =>
              (epc' \in {"returned", "done"} /\ csv_exports' = <<>> /\ excel' = "none")
      ]_vars

\* traci.close raised after the loop had ended: closed twice, False
\* returned, and main has ended without an export.
C12_Witness ==
    /\ epc = "done"
    /\ success = "False"
    /\ raised = "close"
    /\ started
    /\ closes = 2
    /\ printed = "simulation_failed"
    /\ csv_exports = <<>>
    /\ excel = "none"

\* C13: whenever writing the workbook has failed, the CSV export called as
\* the fallback has run to its end: it has written one file for each
\* non-empty container and printed a warning, and written nothing, for each
\* empty one.
C13_CsvFallbackAlwaysWorks ==
    excel = "failed" =>
        /\ epc # "crashed"
        /\ Len(csv_exports) = 2
        /\ ~csv_exports[2].raised
        /\ csv_exports[2].written = {Containers[i] : i \in {j \in 1..4 : Data[Containers[j]] # <<>>}}
        /\ csv_exports[2].warned  = {Containers[i] : i \in {j \in 1..4 : Data[Containers[j]] = <<>>}}

\* The records of vehicle v at time t in a list of records.
At(records, time_field, t, v) ==
    {i \in 1..Len(records) : records[i][time_field] = t /\ records[i].vehicle_id = v}

IsPrefix(old, new) == Len(old) <= Len(new) /\ SubSeq(new, 1, Len(old)) = old

\* C14: whatever the queries of the next collection do, a vehicle whose
\* basic queries raise gets no battery record, real-time record or charging
\* event for that timestep and its trip entry is neither created nor
\* changed, while every vehicle whose basic queries answer, before or after
\* it in the list and whether or not its battery queries raise, gets its
\* real-time record and its trip update; nothing collected before is lost.
C14_FailureIsolatedToVehicle ==
    epc = "step" =>
        \A ids \in IdLists : \A answers \in [1..Len(ids) -> VehicleAnswers] :
            LET t == simulation_time + 1
                r == CollectData(Data, t, ids, answers)
            IN  /\ IsPrefix(battery_data, r.battery_data)
                /\ IsPrefix(realtime_data, r.realtime_data)
                /\ IsPrefix(charging_events, r.charging_events)
                /\ \A i \in 1..Len(ids) :
                      IF answers[i].basic # "ok"
                      THEN /\ At(r.battery_data, "timestep_sec", t, ids[i]) = {}
                           /\ At(r.realtime_data, "timestep_sec", t, ids[i]) = {}
                           /\ At(r.charging_events, "timestep", t, ids[i]) = {}
                           /\ ids[i] \in DOMAIN r.trip_data <=> ids[i] \in DOMAIN trip_data
                           /\ ids[i] \in DOMAIN trip_data =>
                                 r.trip_data[ids[i]] = trip_data[ids[i]]
                      ELSE /\ Cardinality(At(r.realtime_data, "timestep_sec", t, ids[i])) = 1
                           /\ ids[i] \in DOMAIN r.trip_data
                           /\ r.trip_data[ids[i]].final_distance = answers[i].sample.distance
                           /\ r.trip_data[ids[i]].total_waiting_time =
                                 (IF ids[i] \in DOMAIN trip_data
                                  THEN trip_data[ids[i]].total_waiting_time ELSE 0)
                                 + answers[i].sample.waiting

\* The first collection found v1 and v2: the queries about v1 raised, and
\* v2 has its real-time record and its trip entry.
C14_Witness ==
    /\ collections = <<1>>
    /\ epc = "loop"
    /\ Len(realtime_data) = 1
    /\ realtime_data[1].vehicle_id = "v2"
    /\ DOMAIN trip_data = {"v2"}

\* The real-time records of vehicle v, in the order they were collected.
SamplesOf(v) == SelectSeq(realtime_data, LAMBDA rec : rec.vehicle_id = v)

RECURSIVE SumWaiting(_)
SumWaiting(samples) ==
    IF samples = <<>> THEN 0
    ELSE SumWaiting(Tail(samples)) + Head(samples).waiting_time_sec

\* The trip entries agree with the samples collected so far.
TripsMatchSamples ==
    /\ DOMAIN trip_data = {realtime_data[i].vehicle_id : i \in 1..Len(realtime_data)}
    /\ \A v \in DOMAIN trip_data :
          LET samples == SamplesOf(v)
              trip    == trip_data[v]
          IN  /\ trip.vehicle_id = v
              /\ trip.depart_time = samples[1].timestep_sec
              /\ \E i \in 1..Len(samples) : trip.max_speed_kmh = samples[i].speed_kmh
              /\ \A i \in 1..Len(samples) : trip.max_speed_kmh >= samples[i].speed_kmh
              /\ trip.total_waiting_time = SumWaiting(samples)
              /\ trip.final_distance = samples[Len(samples)].distance_traveled_m

\* C15: after every step, trip_data has exactly one entry for each vehicle
\* that has a sample, with depart_time the time of its first sample,
\* max_speed_kmh the largest 3.6*speed of its samples, total_waiting_time
\* the sum of their waiting times and final_distance the distance of the
\* latest; an entry is never removed, its depart_time never changes and its
\* max_speed_kmh never decreases.
C15_TripDataAggregatesSamples ==
    [][ /\ TripsMatchSamples'
        /\ \A v \in DOMAIN trip_data :
              /\ v \in DOMAIN trip_data'
              /\ trip_data'[v].depart_time = trip_data[v].depart_time
              /\ trip_data'[v].max_speed_kmh >= trip_data[v].max_speed_kmh
      ]_vars

\* v1 sampled at 7.2 km/h at time 1 and at 3.6 km/h at time 2; v2 first
\* sampled at time 2.
C15_Witness ==
    /\ simulation_time = 2
    /\ Len(SamplesOf("v1")) = 2
    /\ DOMAIN trip_data = {"v1", "v2"}
    /\ trip_data["v1"] = [vehicle_id |-> "v1", depart_time |-> 1, max_speed_kmh |-> 72,
                          total_waiting_time |-> 1, final_distance |-> 3]
    /\ trip_data["v2"].depart_time = 2

\* C17: every battery record has a maximum capacity above 0, a real-time
\* record of the same vehicle and timestep, and a trip entry of its
\* vehicle; there are never more battery records than real-time records;
\* and no step removes or changes what a container holds.
C17_ContainersConsistentAndGrowing ==
    [][ /\ \A i \in 1..Len(battery_data') :
              /\ battery_data'[i].maximumBatteryCapacity_Wh > 0
              /\ \E k \in 1..Len(realtime_data') :
                    /\ realtime_data'[k].vehicle_id = battery_data'[i].vehicle_id
                    /\ realtime_data'[k].timestep_sec = battery_data'[i].timestep_sec
              /\ battery_data'[i].vehicle_id \in DOMAIN trip_data'
        /\ Len(battery_data') <= Len(realtime_data')
        /\ IsPrefix(battery_data, battery_data')
        /\ IsPrefix(realtime_data, realtime_data')
        /\ IsPrefix(charging_events, charging_events')
        /\ DOMAIN trip_data \subseteq DOMAIN trip_data'
      ]_vars

\* Two vehicles sampled at the first step, one of them with a battery
\* device and charging, the other with a device that reports no capacity.
C17_Witness ==
    /\ collections = <<1>>
    /\ Len(realtime_data) = 2
    /\ Len(battery_data) = 1
    /\ battery_data[1].vehicle_id = "v2"
    /\ Len(charging_events) = 1
    /\ DOMAIN trip_data = {"v1", "v2"}

----------------------------------------------------------------------------
(* Properties of live mode *)

\* The reader the live loop is to use for each monitored file.
ExpectedReader ==
    [f \in Files |->
        CASE f = "fcd.xml"              -> "read_fcd_data"
          [] f = "tripinfo.xml"         -> "read_tripinfo_data"
          [] f = "chargingstations.xml" -> "read_charging_stations_data"]

\* A step of the live loop that examines a file (not Ctrl+C, not the simulator).
LiveCheckStep ==
    /\ mode = "live"
    /\ pc \in {"exists", "getsize"}
    /\ <<pc, idx>>' # <<pc, idx>>
    /\ pc' # "stopped"

\* C1: in live mode, when the loop examines a file, the file's reader is
\* invoked if and only if the file exists and its size is strictly greater
\* than the size recorded for it (0 when live mode starts); exactly then the
\* recorded size becomes the current size, and otherwise file_sizes is left
\* alone; a reader is never invoked in live mode in another way.
C1_RereadIffGrown ==
    [][ /\ (mode' = "live" /\ mode # "live") => file_sizes' = [f \in Files |-> 0]
        /\ (mode = "live" /\ pc' = "rd_exists" /\ pc # "rd_exists") => pc = "getsize"
        /\ LiveCheckStep =>
              LET f       == files_to_monitor[idx]
                  larger  == files[f].exists /\ files[f].size > file_sizes[f]
                  invoked == pc' = "rd_exists" /\ path' = f /\ reader' = ExpectedReader[f]
              IN  /\ pc = "exists" => (~invoked /\ (pc' = "getsize" <=> files[f].exists))
                  /\ pc = "getsize" => (invoked <=> larger)
                  /\ invoked => file_sizes' = [file_sizes EXCEPT ![f] = files[f].size]
                  /\ ~invoked => file_sizes' = file_sizes
      ]_vars

\* A cycle in which tripinfo.xml is re-read and fcd.xml, seen at size 2
\* before and still of size 2, is not.
C1_Witness ==
    /\ mode = "live"
    /\ pc = "rd_exists"
    /\ path = "tripinfo.xml"
    /\ calls = <<[reader |-> "read_tripinfo_data", path |-> "tripinfo.xml"]>>
    /\ file_sizes["fcd.xml"] = 2
    /\ files["fcd.xml"] = [exists |-> TRUE, size |-> 2]
    /\ file_sizes["tripinfo.xml"] = 1

\* A poll reads the size of file f in this step.
Observes(f) ==
    /\ mode = "live"
    /\ pc = "getsize"
    /\ files_to_monitor[idx] = f
    /\ files[f].exists
    /\ pc' # pc
    /\ pc' # "stopped"

\* C18: the size recorded for a file never decreases; a poll that reads the
\* file's size leaves the larger of that size and the recorded one, so the
\* recorded size is the largest size a poll has seen; no other step changes
\* it, the file's deletion and truncation included; and in live mode the
\* file is given to its reader only at a size above the recorded one.
C18_RecordedSizeIsHighWaterMark ==
    [][ \A f \in Files :
          /\ file_sizes'[f] >= file_sizes[f]
          /\ IF Observes(f)
             THEN file_sizes'[f] = IF files[f].size > file_sizes[f]
                                   THEN files[f].size ELSE file_sizes[f]
             ELSE file_sizes'[f] = file_sizes[f]
          /\ (mode = "live" /\ pc' = "rd_exists" /\ pc # "rd_exists" /\ path' = f) =>
                (Observes(f) /\ files[f].size > file_sizes[f])
      ]_vars

\* fcd.xml was seen at size 2 and is now of size 1: the poll has gone past
\* it without a re-read, and tripinfo.xml, seen at size 1, has been deleted.
C18_Witness ==
    /\ mode = "live"
    /\ pc = "exists"
    /\ idx = 3
    /\ calls = <<>>
    /\ file_sizes["fcd.xml"] = 2
    /\ files["fcd.xml"] = [exists |-> TRUE, size |-> 1]
    /\ file_sizes["tripinfo.xml"] = 1
    /\ ~files["tripinfo.xml"].exists

\* The file holds more than what the monitor last read from it.
Grown(f) == files[f].exists /\ files[f].size > lastRead[f]

Polling == mode = "live" /\ pc \in LivePcs

Invoked(f) == pc = "rd_exists" /\ path = f

\* C2: in live mode without Ctrl+C, a monitored file that holds more than the
\* monitor last read from it is eventually re-read: it cannot stay larger
\* than what was read, with the loop polling, and never be given to its reader.
C2_GrownFileIsReread ==
    \A f \in Files : []<>(~(Polling /\ Grown(f)) \/ Invoked(f))

\* C3: live mode leaves its loop only by Ctrl+C, with the stop message.
C3_OnlyInterruptExits ==
    (mode = "live" /\ pc \notin LivePcs) =>
        (pc = "stopped" /\ printed = "stopped_by_user")

----------------------------------------------------------------------------
(* Properties of the read operations *)

\* C4: no read operation lets an exception out; a failed read prints a
\* message; a file that is missing is not parsed; analyze_network returns
\* None with an error message on a missing or malformed file, None exactly
\* when it printed an error, and a list otherwise.
C4_ReadOperationsCatchErrors ==
    /\ pc # "crashed"
    /\ pc = "rd_ret" =>
          /\ res.outcome \in {"not_found", "read", "FileNotFoundError", "ParseError",
                              "ValueError"}
          /\ res.outcome # "read" => res.message # "none"
          /\ res.outcome \in {"not_found", "FileNotFoundError"} =>
                (res.processed = 0 /\ res.recs = <<>>)
    /\ connections.returned =>
          /\ net.file = "missing" =>
                (connections.isNone /\ connections.message = "error_analyzing")
          /\ net.file = "malformed" =>
                (connections.isNone /\ connections.message = "error_parsing")
          /\ connections.isNone <=> connections.message # "none"
          /\ connections.isNone => connections.list = <<>>

\* read_battery_data has met malformed XML and returns after its message.
C4_Witness ==
    /\ pc = "rd_ret"
    /\ reader = "read_battery_data"
    /\ res.outcome = "ParseError"
    /\ res.message = "skipping"

\* C5: a record that raises costs only itself: when a reader returns after a
\* record has raised, it has processed every record of the file that does
\* not raise (it went on with the next record).
C5_ErrorSkipsOneRecord ==
    (pc = "rd_ret" /\ res.outcome = "ValueError") =>
        res.processed = Cardinality({i \in 1..Len(res.recs) : res.recs[i] = "ok"})

----------------------------------------------------------------------------
(* Properties of one-shot mode and of the command line *)

OneShotOrder == <<"fcd.xml", "tripinfo.xml", "chargingstations.xml">>

\* C6: read_all_files calls its readers on fcd.xml, tripinfo.xml and
\* chargingstations.xml in this order, whatever state the files are in; it
\* never stops before the banner, and ends with all three attempted and the
\* banner printed.
C6_OneShotReadsAllInOrder ==
    mode = "oneshot" =>
        /\ pc \in {"call", "rd_exists", "rd_parse", "rd_ret", "banner", "done"}
        /\ Len(calls) <= Len(OneShotOrder)
        /\ \A i \in 1..Len(calls) : calls[i].path = OneShotOrder[i]
        /\ pc # "done" => ENABLED (OneShot \/ Reader)
        /\ pc = "done" => (Len(calls) = Len(OneShotOrder) /\ printed = "complete")

\* The run ends with the banner although fcd.xml was missing when its reader
\* looked for it and no file exists at the end.
C6_Witness ==
    /\ mode = "oneshot"
    /\ pc = "done"
    /\ printed = "complete"
    /\ Len(calls) = 3
    /\ \A f \in Files : ~files[f].exists

\* C7: when read_all_files ends, every reader the module defines has been
\* run exactly once.
C7_EveryReaderRunsOnce ==
    (mode = "oneshot" /\ pc = "done") =>
        \A rd \in Readers :
            Cardinality({i \in 1..Len(calls) : calls[i].reader = rd}) = 1

\* C8: the mode is decided by the first argument alone: none, one-shot;
\* "--live", the monitor; "--help", the usage text; anything else, the
\* unknown-option message; the last two read no file.
C8_FirstArgumentSelectsMode ==
    mode # "none" =>
        /\ argv = <<>> <=> mode = "oneshot"
        /\ (argv # <<>> /\ argv[1] = "--live") <=> mode = "live"
        /\ (argv # <<>> /\ argv[1] = "--help") <=> mode = "help"
        /\ (argv # <<>> /\ argv[1] \notin {"--live", "--help"}) <=> mode = "unknown"
        /\ mode = "help" => (printed = "usage" /\ pc = "done" /\ calls = <<>>)
        /\ mode = "unknown" => (printed = "unknown_option" /\ pc = "done" /\ calls = <<>>)
        /\ mode = "oneshot" => pc \in {"call", "rd_exists", "rd_parse", "rd_ret",
                                        "banner", "done"}
        /\ mode = "live" => pc \in LivePcs \cup {"stopped", "crashed"}

\* "--help --live" has printed the usage text and read nothing.
C8_Witness ==
    /\ argv = <<"--help", "--live">>
    /\ mode = "help"
    /\ printed = "usage"
    /\ calls = <<>>

----------------------------------------------------------------------------
(* Properties of analyze_network *)

\* The numeric attributes of the file all hold numbers.
AllNumeric(n) ==
    /\ \A i \in 1..Len(n.junctions) :
          ~FloatRaises(n.junctions[i].x) /\ ~FloatRaises(n.junctions[i].y)
    /\ \A i \in 1..Len(n.edges) : \A k \in 1..Len(n.edges[i].lanes) :
          ~FloatRaises(n.edges[i].lanes[k])

\* The edges C9 says are returned: no id or an id not starting with ':',
\* 'from' and 'to' present and each the id of a junction of the file.
Joined(e, n) ==
    /\ e.id = None \/ ~StartsWith(e.id[1], ":")
    /\ e.from # None
    /\ e.to # None
    /\ \E i \in 1..Len(n.junctions) : n.junctions[i].id = e.from
    /\ \E i \in 1..Len(n.junctions) : n.junctions[i].id = e.to

RECURSIVE JoinedEdges(_, _)
JoinedEdges(edges, n) ==
    IF edges = <<>> THEN <<>>
    ELSE LET rest == JoinedEdges(SubSeq(edges, 1, Len(edges) - 1), n)
             e    == edges[Len(edges)]
         IN  IF Joined(e, n)
             THEN Append(rest, [edge |-> e.id, from |-> e.from[1], to |-> e.to[1]])
             ELSE rest

\* C9: on a file whose numbers are all well formed, analyze_network returns
\* one connection for each such edge, in document order, and no other.
C9_OneConnectionPerJoinedEdge ==
    (connections.returned /\ net.file = "ok" /\ AllNumeric(net)) =>
        /\ ~connections.isNone
        /\ [i \in 1..Len(connections.list) |->
               [edge |-> connections.list[i].edge,
                from |-> connections.list[i].from,
                to   |-> connections.list[i].to]]
           = JoinedEdges(net.edges, net)

\* The positions of S up to i, counted.
Rank(S, i) == Cardinality({j \in S : j <= i})

\* C16: the discrepancy analysis lists, in order, exactly the connections
\* with |declared - calculated| > 10; compare_with_diagram prints a row, in
\* order, for exactly the connections whose edge is in the diagram's table,
\* with status Match when |declared - expected| < 10 and Mismatch otherwise;
\* so a difference of exactly 10 is a Mismatch and is not listed.
C16_TenMetreThresholdsAreStrict ==
    (connections.returned /\ ~connections.isNone) =>
        LET list  == connections.list
            far   == {i \in 1..Len(list) : Abs(list[i].declared - list[i].calculated) > 10}
            known == {i \in 1..Len(list) : list[i].edge[1] \in DOMAIN expected}
        IN  /\ Len(report.discrepancies) = Cardinality(far)
            /\ \A i \in far : report.discrepancies[Rank(far, i)].edge = list[i].edge
            /\ \A k \in 1..Len(report.discrepancies) : report.discrepancies[k].diff > 10
            /\ (pc = "done" /\ list # <<>>) =>
                  /\ Len(report.comparison) = Cardinality(known)
                  /\ \A i \in known :
                        LET row == report.comparison[Rank(known, i)]
                            off == Abs(list[i].declared - expected[list[i].edge[1]])
                        IN  /\ row.edge = list[i].edge
                            /\ row.status \in {"Match", "Mismatch"}
                            /\ row.status = "Match" <=> off < 10
                            /\ off = 10 => row.status = "Mismatch"

\* E10 declared 130 m between junctions 120 m apart, the diagram says 120:
\* not listed as a discrepancy, a Mismatch against the diagram; X1 is not in
\* the diagram and has no row.
C16_Witness ==
    /\ pc = "done"
    /\ Len(connections.list) = 2
    /\ connections.list[1].edge = Some(<<"E", "1", "0">>)
    /\ connections.list[1].declared = 130
    /\ connections.list[1].calculated = 120
    /\ connections.list[2].edge = Some(<<"X", "1">>)
    /\ report.discrepancies = <<>>
    /\ Len(report.comparison) = 1
    /\ report.comparison[1].status = "Mismatch"

\* The junction a connection's endpoint names: the last one of that id.
JunctionOf(name, n) ==
    n.junctions[CHOOSE i \in 1..Len(n.junctions) :
                    /\ n.junctions[i].id = Some(name)
                    /\ \A j \in (i + 1)..Len(n.junctions) : n.junctions[j].id # Some(name)]

\* Positions, in document order, of the edges that became connections.
KeptPositions(n) ==
    LET nodes == Nodes(n.junctions)
        kept  == {i \in 1..Len(n.edges) : Kept(n.edges[i], nodes)}
    IN  [k \in 1..Cardinality(kept) |->
            CHOOSE i \in kept : Cardinality({j \in kept : j < i}) = k - 1]

\* C10: for every connection returned, calculated is the Euclidean distance
\* between its two junctions (its square is dx^2 + dy^2; it is never
\* negative, 0 when the junctions coincide, the same for an edge and its
\* reverse), and declared is the length of the edge's first lane, or 0 when
\* the edge has no lane.
C10_LengthsOfEveryConnection ==
    (connections.returned /\ ~connections.isNone) =>
        /\ Len(connections.list) = Len(KeptPositions(net))
        /\ \A i \in 1..Len(connections.list) :
              LET c  == connections.list[i]
                  e  == net.edges[KeptPositions(net)[i]]
                  j1 == JunctionOf(c.from, net)
                  j2 == JunctionOf(c.to, net)
                  dx == FloatOrZero(j2.x) - FloatOrZero(j1.x)
                  dy == FloatOrZero(j2.y) - FloatOrZero(j1.y)
              IN  /\ c.calculated >= 0
                  /\ c.calculated * c.calculated = dx * dx + dy * dy
                  /\ (dx = 0 /\ dy = 0) => c.calculated = 0
                  /\ \A k \in 1..Len(connections.list) :
                        (connections.list[k].from = c.to /\ connections.list[k].to = c.from)
                            => connections.list[k].calculated = c.calculated
                  /\ e.lanes = <<>> => c.declared = 0
                  /\ (e.lanes # <<>> /\ e.lanes[1] # None) => c.declared = e.lanes[1][1].val

\* a at (0,0) and b at (3,4): an edge a->b with a lane of length 5, then an
\* edge a->b without a lane.
C10_Witness ==
    /\ connections.returned
    /\ Len(connections.list) = 2
    /\ connections.list[1].calculated = 5
    /\ connections.list[1].declared = 5
    /\ connections.list[2].edge = Some(<<"f">>)
    /\ connections.list[2].calculated = 5
    /\ connections.list[2].declared = 0

====
